---------------------------- MODULE Spec2Model ----------------------------
(***************************************************************************)
(* Model of the JSON <-> paired-text conversion pipeline of               *)
(* hiero-transformer: convert_files/clean_convert2txt.py (JSON -> text)   *)
(* and convert_files/txt2json.py (text -> JSON).                          *)
(*                                                                         *)
(* A Python str is modelled as a sequence of one-character strings, the   *)
(* Python value None as the sequence NoneVal, a Python dict as a function *)
(* whose DOMAIN is the set of keys present.                                *)
(***************************************************************************)
EXTENDS Naturals, Sequences, FiniteSets, TLC

(* ------------------------------ bounds -------------------------------- *)
\* longest text fed to the pure transliteration transforms
MaxLen == 3
\* longest chain of transforms applied to one text
MaxOps == 3
\* largest number of entries in the JSON array
MaxEntries == 2
\* largest number of lines of a hand-made text file
MaxLines == 2

(* --------------------------- text primitives -------------------------- *)
\* characters of the modelled texts: letters, the separator (space), the
\* word-boundary marker, a line break (whitespace that is not the
\* separator) and one markup character that the cleaners delete
Chars == {"a", "b", " ", "_", "\n", "#"}

\* characters str.strip() removes
Whitespace == {" ", "\n"}

NoneVal == <<"None">>

Texts(n) == UNION {[1..k -> Chars] : k \in 0..n}

RECURSIVE lstrip(_)
lstrip(text) ==
    IF text # <<>> /\ Head(text) \in Whitespace THEN lstrip(Tail(text)) ELSE text

RECURSIVE rstrip(_)
rstrip(text) ==
    IF text # <<>> /\ text[Len(text)] \in Whitespace
    THEN rstrip(SubSeq(text, 1, Len(text) - 1))
    ELSE text

\* str.strip()
strip(text) == rstrip(lstrip(text))

\* str.replace(old, new) for a one-character old and a text new
RECURSIVE replace(_, _, _)
replace(text, old, new) ==
    IF text = <<>> THEN <<>>
    ELSE (IF Head(text) = old THEN new ELSE <<Head(text)>>)
         \o replace(Tail(text), old, new)

\* sep.join(parts) for a sequence of texts
RECURSIVE join(_, _)
join(sep, parts) ==
    IF parts = <<>> THEN <<>>
    ELSE IF Len(parts) = 1 THEN parts[1]
    ELSE parts[1] \o sep \o join(sep, Tail(parts))

\* the characters of a text as a sequence of one-character texts
chars_of(text) == [i \in 1..Len(text) |-> <<text[i]>>]

(* ---------------------- formatters / unformatters --------------------- *)
format_egy(text) == strip(text)

format_tnt(text) == join(<<" ">>, chars_of(replace(strip(text), " ", <<"_">>)))

format_text(text, lang_type) ==
    IF lang_type = "egy" THEN format_egy(text)
    ELSE IF lang_type = "tnt" THEN format_tnt(text)
    ELSE strip(text)

unformat_egy(text) == strip(text)

\* unformat_tnt that forgets to remove the separators
unformat_tnt_keep_sep(text) == strip(replace(strip(text), "_", <<" ">>))

unformat_tnt(text) == strip(replace(replace(strip(text), " ", <<>>), "_", <<" ">>))

unformat_text(text, lang_type) ==
    IF lang_type = "egy" THEN unformat_egy(text)
    ELSE IF lang_type = "tnt" THEN unformat_tnt(text)
    ELSE strip(text)


(* ----------------------------- dictionaries --------------------------- *)
EmptyDict == <<>>

\* dict.get(key, default)
Get(d, key, default) ==
    IF d = EmptyDict THEN default
    ELSE IF key \in DOMAIN d THEN d[key] ELSE default

(* ------------------------- module-level tables ------------------------ *)
FIELD_MAPPING ==
    [egy |-> "source", tnt |-> "transliteration", en |-> "target",
     de |-> "target", lkey |-> "lKey", worldClass |-> "wordClass"]

LANG_FILTER_MAPPING == [en |-> <<"e", "n">>, de |-> <<"d", "e">>]

\* the cleaners of the utils module: deterministic normalisations that strip
\* markup and turn a line break into a blank
clean_graphics(text) == replace(replace(text, "#", <<>>), "\n", <<" ">>)

clean_wChar(text) == replace(replace(text, "#", <<>>), "\n", <<" ">>)

clean_traduction(text) == replace(replace(text, "#", <<>>), "\n", <<" ">>)

\* CLEAN_FUNCTION_MAPPING.get(lang_type) applied to text, or text unchanged
clean_text(text, lang_type) ==
    IF lang_type = "egy" THEN clean_graphics(text)
    ELSE IF lang_type = "tnt" THEN clean_wChar(text)
    ELSE IF lang_type \in {"en", "de"} THEN clean_traduction(text)
    ELSE text

(* ------------------------------- inputs ------------------------------- *)
\* codes a caller may pass: the six field codes and one unknown code
ArgCodes == DOMAIN FIELD_MAPPING \cup {"xx"}

\* values of a record's text fields: null, empty, whitespace only, markup
\* only, plain, with an interior line break
FieldVals ==
    {NoneVal, <<>>, <<" ">>, <<"#">>, <<"a", "b">>, <<"a", "\n", "b">>}

\* metadata mappings: without target_lang, or with one of two tags
MetadataDicts ==
    {EmptyDict} \cup {("target_lang" :> l) : l \in {<<"e", "n">>, <<"d", "e">>}}

\* records of the JSON array that carry the two selected fields and,
\* optionally, a metadata mapping (no other key is ever read)
Entries(sf, tf) ==
    {f @@ m : f \in [{sf, tf} -> FieldVals],
              m \in {EmptyDict} \cup {("metadata" :> d) : d \in MetadataDicts}}

Missing == <<"Missing">>

(* ------------------------------- state -------------------------------- *)
VARIABLES
    pc,            \* position of the running program
    error,         \* exception raised, "" while none
    x, val, ops,   \* transform chain: input text, current text, transforms applied
    source, target,            \* convert_json_to_txt arguments
    json_state,                \* the file at json_path: "missing", "malformed", "ok"
    n,                         \* len(data) once the JSON array is loaded
    i,                         \* entries of data consumed by the loop
    entry,                     \* loop variable
    source_lines, target_lines, skipped,
    stats,
    source_file, target_file,  \* contents of the two text files, or Missing
    opened,                    \* files opened for writing so far
    kept,                      \* <<source_text, target_text>> of the entries appended
    tnt_plain,                 \* no transliteration consumed so far has "_" or " "
    source_type, target_type,  \* convert_txt_to_json arguments
    rd_source_lines, rd_target_lines,  \* the lines convert_txt_to_json read
    j,                         \* line pairs consumed by its loop
    data,                      \* the records it built
    out_json                   \* the array dumped to output_path

fmt_vars == <<x, val, ops>>
j2t_vars == <<source, target, json_state, n, i, entry, source_lines,
              target_lines, skipped, stats, kept, tnt_plain>>
file_vars == <<source_file, target_file, opened>>
t2j_vars == <<source_type, target_type, rd_source_lines, rd_target_lines, j,
              data, out_json>>
vars == <<pc, error, fmt_vars, j2t_vars, file_vars, t2j_vars>>

NoStats == [total_entries |-> 0, processed_entries |-> 0, skipped_entries |-> 0]

FmtIdle == x = <<>> /\ val = <<>> /\ ops = <<>>

J2TIdle ==
    /\ source = "xx" /\ target = "xx" /\ json_state = "missing"
    /\ n = 0 /\ i = 0 /\ entry = EmptyDict
    /\ source_lines = <<>> /\ target_lines = <<>> /\ skipped = 0
    /\ stats = NoStats /\ kept = <<>> /\ tnt_plain = TRUE

T2JIdle ==
    /\ source_type = "xx" /\ target_type = "xx"
    /\ rd_source_lines = <<>> /\ rd_target_lines = <<>>
    /\ j = 0 /\ data = <<>> /\ out_json = <<>>

(* ----------------------- transform chain (pure) ----------------------- *)
InitFmt ==
    /\ pc = "fmt" /\ error = ""
    /\ x \in Texts(MaxLen) /\ val = x /\ ops = <<>>
    /\ J2TIdle /\ T2JIdle
    /\ source_file = Missing /\ target_file = Missing /\ opened = {}

ApplyFormatTnt ==
    /\ pc = "fmt" /\ Len(ops) < MaxOps
    /\ val' = format_tnt(val)
    /\ ops' = Append(ops, "format_tnt")
    /\ UNCHANGED <<pc, error, x, j2t_vars, file_vars, t2j_vars>>

ApplyUnformatTnt ==
    /\ pc = "fmt" /\ Len(ops) < MaxOps
    /\ val' = unformat_tnt(val)
    /\ ops' = Append(ops, "unformat_tnt")
    /\ UNCHANGED <<pc, error, x, j2t_vars, file_vars, t2j_vars>>

NextFmt == ApplyFormatTnt \/ ApplyUnformatTnt

SpecFmt == InitFmt /\ [][NextFmt]_vars


(* ------------------- convert_json_to_txt (JSON -> text) --------------- *)
InitJ2T ==
    /\ pc = "j_start" /\ error = ""
    /\ FmtIdle
    /\ source \in ArgCodes /\ target \in ArgCodes
    /\ json_state \in {"missing", "malformed", "ok"}
    /\ n = 0 /\ i = 0 /\ entry = EmptyDict
    /\ source_lines = <<>> /\ target_lines = <<>> /\ skipped = 0
    /\ stats = NoStats /\ kept = <<>> /\ tnt_plain = TRUE
    /\ T2JIdle
    /\ source_file = Missing /\ target_file = Missing /\ opened = {}

\* raise in convert_json_to_txt
RaiseJ(exc) == pc' = "j_error" /\ error' = exc

\* if not json_path.exists(): raise FileNotFoundError
CheckJsonPath ==
    /\ pc = "j_start"
    /\ IF json_state = "missing"
       THEN RaiseJ("FileNotFoundError: JSON file not found")
       ELSE pc' = "j_fields" /\ error' = error
    /\ UNCHANGED <<fmt_vars, j2t_vars, file_vars, t2j_vars>>

\* FIELD_MAPPING.get(source), FIELD_MAPPING.get(target) and the two raises
ResolveFields ==
    /\ pc = "j_fields"
    /\ IF source \notin DOMAIN FIELD_MAPPING \/ target \notin DOMAIN FIELD_MAPPING
       THEN RaiseJ("ValueError: Unknown type")
       ELSE pc' = "j_load" /\ error' = error
    /\ UNCHANGED <<fmt_vars, j2t_vars, file_vars, t2j_vars>>

\* data = json.load(f): a parse error, or an array of some length
LoadJson ==
    /\ pc = "j_load"
    /\ IF json_state = "malformed"
       THEN RaiseJ("JSONDecodeError") /\ n' = n
       ELSE pc' = "j_loop" /\ error' = error /\ n' \in 0..MaxEntries
    /\ UNCHANGED <<fmt_vars, source, target, json_state, i, entry, source_lines,
                   target_lines, skipped, stats, kept, tnt_plain, file_vars,
                   t2j_vars>>

source_text(e, src) == Get(e, FIELD_MAPPING[src], NoneVal)

target_text(e, tgt) == Get(e, FIELD_MAPPING[tgt], NoneVal)

\* if source_text is None or target_text is None
MissingField(e, src, tgt) ==
    source_text(e, src) = NoneVal \/ target_text(e, tgt) = NoneVal

\* if source_text == "" or target_text == ""
EmptyField(e, src, tgt) ==
    source_text(e, src) = <<>> \/ target_text(e, tgt) = <<>>

\* metadata.get("target_lang") of entry.get("metadata", {})
target_lang(e) == Get(Get(e, "metadata", EmptyDict), "target_lang", NoneVal)

\* language filter that lets a record without target_lang through
LangMismatch_Lenient(e, tgt) ==
    /\ tgt \in DOMAIN LANG_FILTER_MAPPING
    /\ target_lang(e) # NoneVal
    /\ target_lang(e) # LANG_FILTER_MAPPING[tgt]

\* if target in LANG_FILTER_MAPPING: ... if target_lang != LANG_FILTER_MAPPING[target]
LangMismatch(e, tgt) ==
    /\ tgt \in DOMAIN LANG_FILTER_MAPPING
    /\ target_lang(e) # LANG_FILTER_MAPPING[tgt]

source_cleaned(e, src) == clean_text(source_text(e, src), src)

target_cleaned(e, tgt) == clean_text(target_text(e, tgt), tgt)

\* if source_cleaned == "" or target_cleaned == ""
CleanedEmpty(e, src, tgt) ==
    source_cleaned(e, src) = <<>> \/ target_cleaned(e, tgt) = <<>>

source_formatted(e, src) == format_text(source_cleaned(e, src), src)

target_formatted(e, tgt) == format_text(target_cleaned(e, tgt), tgt)

\* formatted-empty check that looks at the source side only
FormattedEmpty_SourceOnly(e, src, tgt) == source_formatted(e, src) = <<>>

\* if source_formatted == "" or target_formatted == ""
FormattedEmpty(e, src, tgt) ==
    source_formatted(e, src) = <<>> \/ target_formatted(e, tgt) = <<>>

\* the entry takes one of the four "skipped += 1; continue" exits
TakesSkip(e, src, tgt) ==
    \/ MissingField(e, src, tgt)
    \/ EmptyField(e, src, tgt)
    \/ LangMismatch(e, tgt)
    \/ CleanedEmpty(e, src, tgt)
    \/ FormattedEmpty(e, src, tgt)

\* a skip exit that forgets the counter
SkipEntry_NoCount == UNCHANGED <<skipped, source_lines, target_lines, kept>>

\* skipped += 1; continue
SkipEntry ==
    /\ skipped' = skipped + 1
    /\ UNCHANGED <<source_lines, target_lines, kept>>

\* append that drops the target line
AppendEntry_SourceOnly(e) ==
    /\ source_lines' = Append(source_lines, source_formatted(e, source))
    /\ kept' = Append(kept, <<source_text(e, source), target_text(e, target)>>)
    /\ UNCHANGED <<target_lines, skipped>>

\* source_lines.append(source_formatted); target_lines.append(target_formatted)
AppendEntry(e) ==
    /\ source_lines' = Append(source_lines, source_formatted(e, source))
    /\ target_lines' = Append(target_lines, target_formatted(e, target))
    /\ kept' = Append(kept, <<source_text(e, source), target_text(e, target)>>)
    /\ UNCHANGED skipped

\* the entry's transliteration, if it has one, has no "_" and no " "
PlainTransliteration(e) ==
    LET t == Get(e, "transliteration", <<>>) IN
    \A k \in 1..Len(t) : t[k] \notin {"_", " "}

\* one iteration of "for entry in data"
ConvertEntry ==
    /\ pc = "j_loop" /\ i < n
    /\ \E e \in Entries(FIELD_MAPPING[source], FIELD_MAPPING[target]) :
          /\ entry' = e
          /\ IF TakesSkip(e, source, target) THEN SkipEntry ELSE AppendEntry(e)
          /\ tnt_plain' = (tnt_plain /\ PlainTransliteration(e))
    /\ i' = i + 1
    /\ UNCHANGED <<pc, error, fmt_vars, source, target, json_state, n, stats,
                   file_vars, t2j_vars>>

\* with open(source_path, 'w') as f: f.write('\n'.join(source_lines))
WriteSourceFile ==
    /\ pc = "j_loop" /\ i = n
    /\ opened' = opened \cup {"source_path"}
    /\ source_file' = join(<<"\n">>, source_lines)
    /\ pc' = "j_write_target"
    /\ UNCHANGED <<error, fmt_vars, j2t_vars, target_file, t2j_vars>>

\* with open(target_path, 'w') as f: f.write('\n'.join(target_lines))
WriteTargetFile ==
    /\ pc = "j_write_target"
    /\ opened' = opened \cup {"target_path"}
    /\ target_file' = join(<<"\n">>, target_lines)
    /\ pc' = "j_stats"
    /\ UNCHANGED <<error, fmt_vars, j2t_vars, source_file, t2j_vars>>

\* stats = {...}; return source_path, target_path, stats
ReturnStats ==
    /\ pc = "j_stats"
    /\ stats' = [total_entries |-> n,
                 processed_entries |-> Len(source_lines),
                 skipped_entries |-> skipped]
    /\ pc' = "j_done"
    /\ UNCHANGED <<error, fmt_vars, source, target, json_state, n, i, entry,
                   source_lines, target_lines, skipped, kept, tnt_plain,
                   file_vars, t2j_vars>>

NextJ2T ==
    \/ CheckJsonPath
    \/ ResolveFields
    \/ LoadJson
    \/ ConvertEntry
    \/ WriteSourceFile
    \/ WriteTargetFile
    \/ ReturnStats

Spec == InitJ2T /\ [][NextJ2T]_vars


(* ------------------- convert_txt_to_json (text -> JSON) --------------- *)
FIELD_MAPPING_T ==
    [egy |-> "source", tnt |-> "transliteration", en |-> "target",
     de |-> "target", lkey |-> "lKey", worldClass |-> "wordClass"]

\* lines a hand-made text file is built from
LineTexts == {<<"a">>, <<" ", "b">>, <<"a", " ", "_", " ", "b">>}

LineSeqs(k) == UNION {[1..m -> LineTexts] : m \in 0..k}

\* text files: lines joined by line breaks, with or without a final one
TxtFiles ==
    {join(<<"\n">>, ls) \o last : ls \in LineSeqs(MaxLines), last \in {<<>>, <<"\n">>}}

InitT2J ==
    /\ pc = "t_start" /\ error = ""
    /\ FmtIdle /\ J2TIdle
    /\ source_type \in ArgCodes /\ target_type \in ArgCodes
    /\ rd_source_lines = <<>> /\ rd_target_lines = <<>>
    /\ j = 0 /\ data = <<>> /\ out_json = <<>>
    /\ source_file \in TxtFiles \cup {Missing}
    /\ target_file \in TxtFiles \cup {Missing}
    /\ opened = {}

\* position of the first line break of a text, 0 if it has none
RECURSIVE find_newline(_, _)
find_newline(content, k) ==
    IF k > Len(content) THEN 0
    ELSE IF content[k] = "\n" THEN k
    ELSE find_newline(content, k + 1)

\* line reader that drops blank lines
RECURSIVE read_lines_skip_blank(_)
read_lines_skip_blank(content) ==
    IF content = <<>> THEN <<>>
    ELSE LET k == find_newline(content, 1) IN
         IF k = 0 THEN <<content>>
         ELSE (IF k = 1 THEN <<>> ELSE <<SubSeq(content, 1, k - 1)>>)
              \o read_lines_skip_blank(SubSeq(content, k + 1, Len(content)))

\* [line.rstrip('\n') for line in f] for a file holding content
RECURSIVE read_lines(_)
read_lines(content) ==
    IF content = <<>> THEN <<>>
    ELSE LET k == find_newline(content, 1) IN
         IF k = 0 THEN <<content>>
         ELSE <<SubSeq(content, 1, k - 1)>>
              \o read_lines(SubSeq(content, k + 1, Len(content)))

\* raise in convert_txt_to_json
RaiseT(exc) == pc' = "t_error" /\ error' = exc

\* the two "if not ...exists(): raise FileNotFoundError"
CheckTextPaths ==
    /\ pc = "t_start"
    /\ IF source_file = Missing \/ target_file = Missing
       THEN RaiseT("FileNotFoundError: file not found")
       ELSE pc' = "t_fields" /\ error' = error
    /\ UNCHANGED <<fmt_vars, j2t_vars, file_vars, t2j_vars>>

\* FIELD_MAPPING.get(source_type), FIELD_MAPPING.get(target_type) and the raises
ResolveTypes ==
    /\ pc = "t_fields"
    /\ IF \/ source_type \notin DOMAIN FIELD_MAPPING_T
          \/ target_type \notin DOMAIN FIELD_MAPPING_T
       THEN RaiseT("ValueError: Unknown type")
       ELSE pc' = "t_read" /\ error' = error
    /\ UNCHANGED <<fmt_vars, j2t_vars, file_vars, t2j_vars>>

\* the two "with open(..., 'r')" blocks
ReadTextFiles ==
    /\ pc = "t_read"
    /\ rd_source_lines' = read_lines(source_file)
    /\ rd_target_lines' = read_lines(target_file)
    /\ pc' = "t_check"
    /\ UNCHANGED <<error, fmt_vars, j2t_vars, file_vars, source_type, target_type,
                   j, data, out_json>>

\* line-count check that never raises
CheckLineCounts_NoRaise ==
    /\ pc = "t_check"
    /\ pc' = "t_loop" /\ error' = error
    /\ UNCHANGED <<fmt_vars, j2t_vars, file_vars, t2j_vars>>

\* if len(source_lines) != len(target_lines): raise ValueError
CheckLineCounts ==
    /\ pc = "t_check"
    /\ IF Len(rd_source_lines) # Len(rd_target_lines)
       THEN RaiseT("ValueError: Mismatch in number of lines")
       ELSE pc' = "t_loop" /\ error' = error
    /\ UNCHANGED <<fmt_vars, j2t_vars, file_vars, t2j_vars>>

DefaultEntry ==
    [source |-> <<>>, transliteration |-> <<>>, target |-> <<>>, lKey |-> <<>>,
     wordClass |-> <<>>, flexCode |-> <<>>,
     metadata |-> [source_lang |-> <<>>, target_lang |-> <<>>,
                   id_datapoint |-> <<>>, id_sentence |-> <<>>,
                   language |-> <<>>, date |-> <<>>, script |-> <<>>,
                   id_tree |-> <<>>]]

\* entry[key] = value
SetItem(d, key, value) == [d EXCEPT ![key] = value]

\* entry built with the two assignments in the other order
build_entry_swapped(source_line, target_line, st, tt) ==
    SetItem(SetItem(DefaultEntry, FIELD_MAPPING_T[tt], unformat_text(target_line, tt)),
            FIELD_MAPPING_T[st], unformat_text(source_line, st))

\* the entry built from one line pair
build_entry(source_line, target_line, st, tt) ==
    SetItem(SetItem(DefaultEntry, FIELD_MAPPING_T[st], unformat_text(source_line, st)),
            FIELD_MAPPING_T[tt], unformat_text(target_line, tt))

Min(a, b) == IF a < b THEN a ELSE b

\* len(list(zip(source_lines, target_lines)))
zip_len == Min(Len(rd_source_lines), Len(rd_target_lines))

\* one iteration of "for source_line, target_line in zip(...)"
BuildEntry ==
    /\ pc = "t_loop" /\ j < zip_len
    /\ data' = Append(data, build_entry(rd_source_lines[j + 1],
                                        rd_target_lines[j + 1],
                                        source_type, target_type))
    /\ j' = j + 1
    /\ UNCHANGED <<pc, error, fmt_vars, j2t_vars, file_vars, source_type,
                   target_type, rd_source_lines, rd_target_lines, out_json>>

\* with open(output_path, 'w') as f: json.dump(data, f, ...); return output_path
WriteJson ==
    /\ pc = "t_loop" /\ j = zip_len
    /\ opened' = opened \cup {"output_path"}
    /\ out_json' = data
    /\ pc' = "t_done"
    /\ UNCHANGED <<error, fmt_vars, j2t_vars, source_file, target_file,
                   source_type, target_type, rd_source_lines, rd_target_lines,
                   j, data>>

NextT2J ==
    \/ CheckTextPaths
    \/ ResolveTypes
    \/ ReadTextFiles
    \/ CheckLineCounts
    \/ BuildEntry
    \/ WriteJson

SpecT2J == InitT2J /\ [][NextT2J]_vars

\* either converter, run on its own inputs
InitBoth == InitJ2T \/ InitT2J

NextBoth ==
    \/ CheckJsonPath
    \/ ResolveFields
    \/ LoadJson
    \/ ConvertEntry
    \/ WriteSourceFile
    \/ WriteTargetFile
    \/ ReturnStats
    \/ CheckTextPaths
    \/ ResolveTypes
    \/ ReadTextFiles
    \/ CheckLineCounts
    \/ BuildEntry
    \/ WriteJson

SpecBoth == InitBoth /\ [][NextBoth]_vars

(* ------------- JSON -> text, then text -> JSON on its output ---------- *)
\* convert_txt_to_json called on the two files just written, same codes
RunTxt2Json ==
    /\ pc = "j_done"
    /\ pc' = "t_start"
    /\ source_type' = source
    /\ target_type' = target
    /\ UNCHANGED <<error, fmt_vars, j2t_vars, file_vars, rd_source_lines,
                   rd_target_lines, j, data, out_json>>

NextRoundTrip ==
    \/ CheckJsonPath
    \/ ResolveFields
    \/ LoadJson
    \/ ConvertEntry
    \/ WriteSourceFile
    \/ WriteTargetFile
    \/ ReturnStats
    \/ RunTxt2Json
    \/ CheckTextPaths
    \/ ResolveTypes
    \/ ReadTextFiles
    \/ CheckLineCounts
    \/ BuildEntry
    \/ WriteJson

SpecRoundTrip == InitJ2T /\ [][NextRoundTrip]_vars


(* ============================== properties ============================ *)
ValidCodes == {"egy", "tnt", "en", "de", "lkey", "worldClass"}

J2TLoopOrLater == {"j_loop", "j_write_target", "j_stats", "j_done"}

\* C1: every consumed record was either appended or counted as skipped, never
\* both and never neither, and the stats of a completed run satisfy
\* processed_entries + skipped_entries = total_entries
C1_Conservation ==
    /\ pc \in J2TLoopOrLater => Len(source_lines) + skipped = i
    /\ pc = "j_done" =>
          /\ stats.total_entries = n
          /\ stats.processed_entries + stats.skipped_entries = stats.total_entries

C1_Witness ==
    /\ pc = "j_done"
    /\ stats = [total_entries |-> 2, processed_entries |-> 1, skipped_entries |-> 1]

\* C2: source_lines and target_lines have the same length at every point of
\* the record loop and after it, and the stats report that length as
\* processed_entries
C2_Alignment ==
    /\ Len(source_lines) = Len(target_lines)
    /\ pc = "j_done" => stats.processed_entries = Len(source_lines)
                        /\ stats.processed_entries = Len(target_lines)

C2_Witness ==
    /\ pc = "j_done"
    /\ Len(source_lines) = 2 /\ Len(target_lines) = 2
    /\ stats.processed_entries = 2

\* C4: for a text x with no underscore and no separator, format_tnt then
\* unformat_tnt gives x trimmed, and unformat_tnt, format_tnt, unformat_tnt
\* gives unformat_tnt(x)
NoUnderscoreNoSeparator(text) == \A k \in 1..Len(text) : text[k] \notin {"_", " "}

C4_RoundTripLaw ==
    (pc = "fmt" /\ NoUnderscoreNoSeparator(x)) =>
        /\ ops = <<"format_tnt", "unformat_tnt">> => val = strip(x)
        /\ ops = <<"unformat_tnt", "format_tnt", "unformat_tnt">> =>
              val = unformat_tnt(x)

C4_Witness ==
    /\ pc = "fmt"
    /\ x = <<"\n", "a", "b">>
    /\ ops = <<"format_tnt", "unformat_tnt">>
    /\ val = <<"a", "b">>

\* the language tag the claim associates with a filtered target code
RequiredTag(tgt) == IF tgt = "en" THEN <<"e", "n">> ELSE <<"d", "e">>

\* the checks on the two selected texts alone
TextChecksFail(e, src, tgt) ==
    \/ MissingField(e, src, tgt)
    \/ EmptyField(e, src, tgt)
    \/ CleanedEmpty(e, src, tgt)
    \/ FormattedEmpty(e, src, tgt)

\* C5: with target code "en" or "de", a record whose metadata.target_lang is
\* not the code's tag (a record without metadata or without target_lang
\* included) leaves both output sequences unchanged and adds one to skipped,
\* whatever its texts are; with any other target code a record is skipped
\* exactly when the checks on its texts fail, whatever its metadata is
C5_LanguageFilter ==
    [][(pc = "j_loop" /\ i' = i + 1) =>
          /\ (target \in {"en", "de"} /\ target_lang(entry') # RequiredTag(target)) =>
                /\ source_lines' = source_lines
                /\ target_lines' = target_lines
                /\ skipped' = skipped + 1
          /\ target \notin {"en", "de"} =>
                /\ TextChecksFail(entry', source, target) <=> skipped' = skipped + 1
                /\ ~TextChecksFail(entry', source, target) <=>
                      Len(source_lines') = Len(source_lines) + 1
      ]_vars

C5_Witness ==
    /\ pc = "j_loop" /\ i = 1
    /\ source = "egy" /\ target = "en"
    /\ "metadata" \notin DOMAIN entry
    /\ source_text(entry, source) = <<"a", "b">>
    /\ target_text(entry, target) = <<"a", "b">>
    /\ skipped = 1 /\ source_lines = <<>> /\ target_lines = <<>>

\* C10: a record contributes a line pair only if both selected fields are not
\* null and not empty in the raw record, not empty after cleaning and not
\* empty after formatting; no output line is empty; every consumed record
\* that contributed no line pair is counted as skipped
C10_OnlyNonEmpty ==
    /\ Len(kept) = Len(source_lines)
    /\ Len(kept) = Len(target_lines)
    /\ pc \in J2TLoopOrLater => skipped = i - Len(kept)
    /\ \A k \in 1..Len(kept) :
          /\ kept[k][1] \notin {NoneVal, <<>>}
          /\ kept[k][2] \notin {NoneVal, <<>>}
          /\ clean_text(kept[k][1], source) # <<>>
          /\ clean_text(kept[k][2], target) # <<>>
          /\ format_text(clean_text(kept[k][1], source), source) # <<>>
          /\ format_text(clean_text(kept[k][2], target), target) # <<>>
          /\ source_lines[k] # <<>>
          /\ target_lines[k] # <<>>

C10_Witness ==
    /\ pc = "j_done" /\ n = 2
    /\ source = "egy" /\ target = "lkey"
    /\ source_text(entry, source) = <<"a", "b">>
    /\ target_text(entry, target) = <<" ">>
    /\ Len(source_lines) = 1 /\ skipped = 1

\* number of lines of a text file: its line breaks, plus one for a last line
\* that is not terminated
LineCount(content) ==
    Cardinality({p \in 1..Len(content) : content[p] = "\n"})
    + (IF content # <<>> /\ content[Len(content)] # "\n" THEN 1 ELSE 0)

\* number of line breaks among the first p characters
BreaksUpTo(content, p) == Cardinality({q \in 1..p : content[q] = "\n"})

\* the k-th line of a text file, without its line break
NthLine(content, k) ==
    LET first == IF k = 1 THEN 1
                 ELSE 1 + CHOOSE p \in 1..Len(content) :
                             content[p] = "\n" /\ BreaksUpTo(content, p) = k - 1
        ends == {p \in 1..Len(content) :
                    content[p] = "\n" /\ BreaksUpTo(content, p) = k}
        last == IF ends = {} THEN Len(content) ELSE (CHOOSE p \in ends : TRUE) - 1
    IN SubSeq(content, first, last)

\* C6: in both converters a missing input file, an unknown code, a JSON parse
\* error or a line-count mismatch raises before any output file is opened for
\* writing, and an output file is opened only after all of them were ruled out
C6_ValidateBeforeWrite ==
    /\ pc \in {"j_error", "t_error"} => opened = {} /\ out_json = <<>>
    /\ pc = "j_error" => source_file = Missing /\ target_file = Missing
    /\ (pc \in {"j_start", "j_fields", "j_load", "j_error"} \/ pc \in J2TLoopOrLater) =>
          ((json_state # "ok" \/ source \notin ValidCodes \/ target \notin ValidCodes)
              => opened = {} /\ pc \notin {"j_write_target", "j_stats", "j_done"})
    /\ opened \cap {"source_path", "target_path"} # {} =>
          json_state = "ok" /\ source \in ValidCodes /\ target \in ValidCodes
    /\ "output_path" \in opened =>
          /\ source_file # Missing /\ target_file # Missing
          /\ source_type \in ValidCodes /\ target_type \in ValidCodes
          /\ LineCount(source_file) = LineCount(target_file)
    /\ pc = "t_done" => "output_path" \in opened

C6_Witness ==
    /\ pc = "t_error"
    /\ error = "ValueError: Mismatch in number of lines"
    /\ LineCount(source_file) = 2 /\ LineCount(target_file) = 1
    /\ opened = {} /\ out_json = <<>>

TopLevelFields == {"source", "transliteration", "target", "lKey", "wordClass", "flexCode"}

MetadataKeys ==
    {"source_lang", "target_lang", "id_datapoint", "id_sentence", "language",
     "date", "script", "id_tree"}

\* every field of rec outside used, and every metadata sub-key, is ""
OthersEmpty(rec, used) ==
    /\ DOMAIN rec = TopLevelFields \cup {"metadata"}
    /\ \A f \in TopLevelFields \ used : rec[f] = <<>>
    /\ DOMAIN rec["metadata"] = MetadataKeys
    /\ \A m \in MetadataKeys : rec["metadata"][m] = <<>>

\* C7 as stated: for every pair of valid codes the built record has the
\* source code's field equal to the unformatted source line, the target
\* code's field equal to the unformatted target line and everything else ""
C7_ExactlyTwoFields ==
    \A k \in 1..Len(data) :
        LET sf == FIELD_MAPPING_T[source_type]
            tf == FIELD_MAPPING_T[target_type] IN
        /\ data[k][sf] = unformat_text(rd_source_lines[k], source_type)
        /\ data[k][tf] = unformat_text(rd_target_lines[k], target_type)
        /\ OthersEmpty(data[k], {sf, tf})

\* C7 amended: the target code's field equals the unformatted target line,
\* everything outside the two resolved fields is "", and the source code's
\* field equals the unformatted source line when the two codes resolve to
\* different fields (when they resolve to one field it holds the target's)
C7_TargetWins ==
    \A k \in 1..Len(data) :
        LET sf == FIELD_MAPPING_T[source_type]
            tf == FIELD_MAPPING_T[target_type] IN
        /\ data[k][tf] = unformat_text(rd_target_lines[k], target_type)
        /\ sf # tf => data[k][sf] = unformat_text(rd_source_lines[k], source_type)
        /\ OthersEmpty(data[k], {sf, tf})

C7_Witness ==
    /\ pc = "t_done"
    /\ source_type = "en" /\ target_type = "de"
    /\ rd_source_lines = << <<"a">> >> /\ rd_target_lines = << <<" ", "b">> >>
    /\ Len(out_json) = 1
    /\ out_json[1]["target"] = <<"b">>

\* C9: with existing files and valid codes the run fails with the line-count
\* error exactly when the two files differ in their number of lines;
\* otherwise it writes one record per line pair, record k built from line k
\* of the source file and line k of the target file
C9_LineCounts ==
    /\ (/\ pc = "t_error"
        /\ source_file # Missing /\ target_file # Missing
        /\ source_type \in ValidCodes /\ target_type \in ValidCodes) =>
          /\ error = "ValueError: Mismatch in number of lines"
          /\ LineCount(source_file) # LineCount(target_file)
    /\ error = "ValueError: Mismatch in number of lines" =>
          LineCount(source_file) # LineCount(target_file)
    /\ pc \in {"t_loop", "t_done"} => LineCount(source_file) = LineCount(target_file)
    /\ pc = "t_done" =>
          /\ Len(out_json) = LineCount(source_file)
          /\ Len(out_json) = LineCount(target_file)
          /\ \A k \in 1..Len(out_json) :
                LET sf == FIELD_MAPPING_T[source_type]
                    tf == FIELD_MAPPING_T[target_type] IN
                /\ out_json[k][tf] =
                      unformat_text(NthLine(target_file, k), target_type)
                /\ sf # tf => out_json[k][sf] =
                      unformat_text(NthLine(source_file, k), source_type)

C9_Witness ==
    /\ pc = "t_done"
    /\ source_type = "egy" /\ target_type = "tnt"
    /\ LineCount(source_file) = 2 /\ LineCount(target_file) = 2
    /\ Len(out_json) = 2
    /\ out_json[1]["source"] = <<"a">> /\ out_json[2]["source"] = <<"b">>
    /\ out_json[1]["transliteration"] = <<"a", " ", "b">>
    /\ out_json[2]["transliteration"] = <<"a">>

\* C3: read back line by line, the two written files have the same number
\* of lines, that number is processed_entries, and line k of each file is
\* the formatted text of the k-th appended record
C3_FilesAligned ==
    pc = "t_check" =>
        /\ Len(rd_source_lines) = stats.processed_entries
        /\ Len(rd_target_lines) = stats.processed_entries
        /\ \A k \in 1..Len(kept) :
              /\ rd_source_lines[k] =
                    format_text(clean_text(kept[k][1], source), source)
              /\ rd_target_lines[k] =
                    format_text(clean_text(kept[k][2], target), target)

\* C8: for a corpus whose transliterations have no underscore and no
\* separator, JSON -> text followed by text -> JSON with the same codes ends
\* with one record per appended input record, in order, whose two selected
\* fields equal the original values and whose other fields are ""
C8_PipelineRoundTrip ==
    (pc \in {"t_done", "t_error"} /\ tnt_plain) =>
        /\ pc = "t_done"
        /\ Len(out_json) = Len(kept)
        /\ \A k \in 1..Len(kept) :
              LET sf == FIELD_MAPPING[source]
                  tf == FIELD_MAPPING[target] IN
              /\ out_json[k][sf] = kept[k][1]
              /\ out_json[k][tf] = kept[k][2]
              /\ OthersEmpty(out_json[k], {sf, tf})

=============================================================================
